---- MODULE Spec2Model ----
(***************************************************************************)
(* Model of the Instagram auto publisher:                                  *)
(*   - the publish endpoint  (src/app/api/instagram/publish/route.ts)      *)
(*   - the upload form       (src/components/InstagramUploader.tsx)        *)
(*   - the dashboard page    (Home) and the scheduled posts list           *)
(* The endpoint handles one request at a time; a request comes either from *)
(* an arbitrary HTTP client (DirectRequest) or from the upload form.       *)
(***************************************************************************)
EXTENDS Integers, Sequences, FiniteSets, TLC

\* ------------------------------------------------------------------ bounds

\* datetime values (hours) a publishAt text can denote: 0..MaxTime
MaxTime == 1
\* number of distinct URLs the asset host can hand back
NumUrls == 1
\* posts the provider returns on one page load: 0..MaxPosts
MaxPosts == 1

\* ------------------------------------------------------- program constants

\* InstagramUploader.tsx:7
MAX_FILE_SIZE_MB == 8
\* InstagramUploader.tsx:13  .max(2200, ...)
MaxCaptionLen == 2200
\* route.ts:9 and InstagramUploader.tsx:12  .min(1)
MinCaptionLen == 1
\* InstagramUploader.tsx:65  file.size / (1024 * 1024)
BytesPerMB == 1048576

\* ------------------------------------------------------------- value sets

\* caption texts, told apart by their length only
CaptionLens == {0, MinCaptionLen, MaxCaptionLen, MaxCaptionLen + 1}

\* texts of a publishAt field: empty, not a date, a local datetime
\* ("2030-01-01T10:00", as a datetime-local input writes it) or an ISO
\* timestamp with a Z suffix
TimeTexts ==
    {[fmt |-> "empty", t |-> 0], [fmt |-> "garbage", t |-> 0]}
    \cup {[fmt |-> f, t |-> n] : f \in {"local", "utc"}, n \in 0..MaxTime}

EmptyTime == [fmt |-> "empty", t |-> 0]

LocationTexts == {"", "loc-1"}

\* offsets (hours) of the server's time zone from UTC
TzOffsets == {0, 1}

Urls == {[n |-> i] : i \in 1..NumUrls}
NoUrl == [n |-> 0]

\* an optional value: undefined / null, or a value
None(z) == [some |-> FALSE, v |-> z]
Some(x) == [some |-> TRUE, v |-> x]

\* what FormData.get(name) returns: null, a string or a File
FieldNull(z) == [kind |-> "null", v |-> z]
FieldFile(z) == [kind |-> "file", v |-> z]
FieldString(x) == [kind |-> "string", v |-> x]

FieldsOf(S, z) == {FieldNull(z), FieldFile(z)} \cup {FieldString(x) : x \in S}

ImageKinds == {"null", "string", "file"}

\* ---------------------------------------------------------------- messages

MsgImageRequired == "Image file is required."
MsgMissingConfig == "getInstagramConfig: missing environment config"
MsgTooSmall == "zod: too_small (caption)"
MsgUploadFailed == "Upload request failed."
MsgUnknownCloudinary == "Unknown Cloudinary upload error."
MsgCloudinaryError == "cloudinary: error.message"
MsgInvalidTime == "RangeError: Invalid time value"
MsgScheduleError == "scheduleInstagramPost: error.message"

VARIABLES
    \* ---- publish endpoint, one request
    pc,             \* where the handler is: idle, recv, formData, uploading,
                    \* scheduling, responded
    origin,         \* who sent the request: "none", "direct", "form"
    req,            \* the multipart body: image, caption, publishAt, locationId
    configLoadable, \* whether getInstagramConfig() returns (TRUE) or throws
    tz,             \* the server's time zone offset
    uploadCalls,    \* calls of cloudinary.uploader.upload_stream, this request
    uploadResult,   \* outcome of the upload: "none", "ok", "error", ...
    uploadUrl,      \* secure_url of the upload result
    scheduleCalls,  \* calls of scheduleInstagramPost, this request
    scheduleArgs,   \* the argument of the last scheduleInstagramPost call
    scheduleResult, \* outcome of scheduleInstagramPost: "none", "ok", "throws"
    convertResult,  \* outcome of the publishAt conversion: "none", "skipped",
                    \* "ok", "throws"
    response,       \* the NextResponse of this request
    \* ---- upload form
    envReady,       \* prop envReady (EnvStatus.ready)
    formState,      \* caption, publishAt, mode, locationId
    file,           \* the selected File, or null
    isSubmitting,
    message,        \* the success message, or null
    error,          \* the error message, or null
    parseResult,    \* parseResult.data held by the handleSubmit in flight
    outstanding,    \* fetch calls not yet settled
    refreshPending, \* router.refresh() called, page not yet re-fetched
    \* ---- dashboard page, one load
    homePc,         \* where Home is: none, awaiting, rendered
    postsFetch,     \* the promise of fetchScheduledPosts()
    quotaFetch,     \* the promise of fetchPublishingLimit()
    all,            \* the promise of Promise.all([...])
    scheduledPosts, \* Home's local scheduledPosts
    publishingLimit,\* Home's local publishingLimit
    fetchError,     \* Home's local fetchError
    rendered        \* what the page shows

svars == <<pc, origin, req, configLoadable, tz, uploadCalls, uploadResult,
           uploadUrl, scheduleCalls, scheduleArgs, scheduleResult,
           convertResult, response>>

fvars == <<envReady, formState, file, isSubmitting, message, error,
           parseResult, outstanding, refreshPending>>

pvars == <<homePc, postsFetch, quotaFetch, all, scheduledPosts,
           publishingLimit, fetchError, rendered>>

vars == <<svars, fvars, pvars>>

NoRequest ==
    [image |-> "null", caption |-> FieldNull(0),
     publishAt |-> FieldNull(EmptyTime), locationId |-> FieldNull("")]

Requests ==
    [image : ImageKinds,
     caption : FieldsOf(CaptionLens, 0),
     publishAt : FieldsOf(TimeTexts, EmptyTime),
     locationId : FieldsOf(LocationTexts, "")]

NoArgs ==
    [caption |-> 0, imageUrl |-> NoUrl,
     publishAt |-> None(EmptyTime), locationId |-> None("")]

NoResponse == [status |-> 0, success |-> FALSE, error |-> "", creation |-> ""]

JsonError(status, msg) ==
    [status |-> status, success |-> FALSE, error |-> msg, creation |-> ""]

JsonSuccess(creation) ==
    [status |-> 200, success |-> TRUE, error |-> "", creation |-> creation]

\* ------------------------------------------------- route.ts: pure helpers

\* route.ts:50-62  rawPayload
rawPayload(r) ==
    [caption |-> IF r.caption.kind = "string" THEN r.caption.v ELSE 0,
     publishAt |-> IF r.publishAt.kind = "string"
                   THEN Some(r.publishAt.v) ELSE None(EmptyTime),
     locationId |-> IF r.locationId.kind = "string"
                    THEN Some(r.locationId.v) ELSE None("")]

\* route.ts:8-12  requestSchema.safeParse: the issues, in order
requestSchema(p) ==
    IF p.caption < MinCaptionLen THEN <<MsgTooSmall>> ELSE <<>>

\* new Date(text) in a server whose zone is tz hours ahead of UTC:
\* the instant denoted, or NaN (valid = FALSE)
NewDate(text, zone) ==
    CASE text.fmt = "local" -> [valid |-> TRUE, epoch |-> text.t - zone]
      [] text.fmt = "utc" -> [valid |-> TRUE, epoch |-> text.t]
      [] OTHER -> [valid |-> FALSE, epoch |-> 0]

\* Date.prototype.toISOString: throws a RangeError on an invalid date
toISOString(d) ==
    IF d.valid THEN [ok |-> TRUE, v |-> [fmt |-> "utc", t |-> d.epoch]]
    ELSE [ok |-> FALSE, v |-> EmptyTime]

\* a JavaScript string is truthy unless it is empty
TruthyTime(o) == o.some /\ o.v.fmt # "empty"

\* mutant of publishAtIso: tests `!== undefined` where the code tests truthiness
publishAtIso_definedTest(p, zone) ==
    IF p.publishAt.some
    THEN LET r == toISOString(NewDate(p.publishAt.v, zone))
         IN [ok |-> r.ok, v |-> IF r.ok THEN Some(r.v) ELSE None(EmptyTime)]
    ELSE [ok |-> TRUE, v |-> None(EmptyTime)]

\* route.ts:106-108  publishAtIso
publishAtIso(p, zone) ==
    IF TruthyTime(p.publishAt)
    THEN LET r == toISOString(NewDate(p.publishAt.v, zone))
         IN [ok |-> r.ok, v |-> IF r.ok THEN Some(r.v) ELSE None(EmptyTime)]
    ELSE [ok |-> TRUE, v |-> None(EmptyTime)]

\* route.ts:110-115  the argument of scheduleInstagramPost
scheduleRequest(p, url, iso) ==
    [caption |-> p.caption, imageUrl |-> url, publishAt |-> iso,
     locationId |-> p.locationId]

\* --------------------------------------------------- route.ts: the handler

Respond(r) ==
    /\ response' = r
    /\ pc' = "responded"

\* route.ts:17-37  getInstagramConfig(), up to `await request.formData()`
POST_config ==
    /\ pc = "recv"
    /\ IF ~configLoadable
       THEN Respond(JsonError(500, MsgMissingConfig))
       ELSE /\ pc' = "formData"
            /\ UNCHANGED response
    /\ UNCHANGED <<fvars, pvars>>
    /\ UNCHANGED <<origin, req, configLoadable, tz, uploadCalls, uploadResult,
                   uploadUrl, scheduleCalls, scheduleArgs, scheduleResult,
                   convertResult>>

\* mutant of POST_validate: the schema is checked before the image
POST_validate_schemaFirst ==
    /\ pc = "formData"
    /\ LET issues == requestSchema(rawPayload(req)) IN
       IF issues # <<>>
       THEN /\ Respond(JsonError(400, issues[1]))
            /\ UNCHANGED uploadCalls
       ELSE IF req.image # "file"
       THEN /\ Respond(JsonError(400, MsgImageRequired))
            /\ UNCHANGED uploadCalls
       ELSE /\ uploadCalls' = uploadCalls + 1
            /\ pc' = "uploading"
            /\ UNCHANGED response
    /\ UNCHANGED <<fvars, pvars>>
    /\ UNCHANGED <<origin, req, configLoadable, tz, uploadResult, uploadUrl,
                   scheduleCalls, scheduleArgs, scheduleResult, convertResult>>

\* mutant of POST_validate: the upload is started before the schema check
POST_validate_uploadEarly ==
    /\ pc = "formData"
    /\ LET issues == requestSchema(rawPayload(req)) IN
       IF req.image # "file"
       THEN /\ Respond(JsonError(400, MsgImageRequired))
            /\ UNCHANGED uploadCalls
       ELSE IF issues # <<>>
       THEN /\ Respond(JsonError(400, issues[1]))
            /\ uploadCalls' = uploadCalls + 1
       ELSE /\ uploadCalls' = uploadCalls + 1
            /\ pc' = "uploading"
            /\ UNCHANGED response
    /\ UNCHANGED <<fvars, pvars>>
    /\ UNCHANGED <<origin, req, configLoadable, tz, uploadResult, uploadUrl,
                   scheduleCalls, scheduleArgs, scheduleResult, convertResult>>

\* route.ts:39-104  image check, schema check, start of the upload
POST_validate ==
    /\ pc = "formData"
    /\ LET issues == requestSchema(rawPayload(req)) IN
       IF req.image # "file"
       THEN /\ Respond(JsonError(400, MsgImageRequired))
            /\ UNCHANGED uploadCalls
       ELSE IF issues # <<>>
       THEN /\ Respond(JsonError(400, issues[1]))
            /\ UNCHANGED uploadCalls
       ELSE /\ uploadCalls' = uploadCalls + 1
            /\ pc' = "uploading"
            /\ UNCHANGED response
    /\ UNCHANGED <<fvars, pvars>>
    /\ UNCHANGED <<origin, req, configLoadable, tz, uploadResult, uploadUrl,
                   scheduleCalls, scheduleArgs, scheduleResult, convertResult>>

UploadOutcomes == {"ok", "error", "errorObject", "noResult"}

\* mutant of POST_uploadDone: a missing upload result is not rejected, and
\* scheduleInstagramPost is called with whatever URL there is
POST_uploadDone_noResultCheck(outcome, url) ==
    /\ pc = "uploading"
    /\ uploadResult' = outcome
    /\ IF outcome \in {"ok", "noResult"}
       THEN LET p == rawPayload(req)
                iso == publishAtIso(p, tz) IN
            /\ uploadUrl' = IF outcome = "ok" THEN url ELSE NoUrl
            /\ IF iso.ok
               THEN /\ convertResult' =
                         IF TruthyTime(p.publishAt) THEN "ok" ELSE "skipped"
                    /\ scheduleCalls' = scheduleCalls + 1
                    /\ scheduleArgs' = scheduleRequest(p, uploadUrl', iso.v)
                    /\ pc' = "scheduling"
                    /\ UNCHANGED response
               ELSE /\ convertResult' = "throws"
                    /\ Respond(JsonError(500, MsgInvalidTime))
                    /\ UNCHANGED <<scheduleCalls, scheduleArgs>>
       ELSE /\ Respond(JsonError(500,
                   CASE outcome = "error" -> MsgCloudinaryError
                     [] OTHER -> MsgUploadFailed))
            /\ UNCHANGED <<uploadUrl, convertResult, scheduleCalls,
                           scheduleArgs>>
    /\ UNCHANGED <<fvars, pvars>>
    /\ UNCHANGED <<origin, req, configLoadable, tz, uploadCalls,
                   scheduleResult>>

\* route.ts:87-115  the upload's callback, the publishAt conversion and the
\* call of scheduleInstagramPost; route.ts:124-136 for what is thrown
POST_uploadDone(outcome, url) ==
    /\ pc = "uploading"
    /\ uploadResult' = outcome
    /\ IF outcome = "ok"
       THEN LET p == rawPayload(req)
                iso == publishAtIso(p, tz) IN
            /\ uploadUrl' = url
            /\ IF iso.ok
               THEN /\ convertResult' =
                         IF TruthyTime(p.publishAt) THEN "ok" ELSE "skipped"
                    /\ scheduleCalls' = scheduleCalls + 1
                    /\ scheduleArgs' = scheduleRequest(p, url, iso.v)
                    /\ pc' = "scheduling"
                    /\ UNCHANGED response
               ELSE /\ convertResult' = "throws"
                    /\ Respond(JsonError(500, MsgInvalidTime))
                    /\ UNCHANGED <<scheduleCalls, scheduleArgs>>
       ELSE /\ Respond(JsonError(500,
                   CASE outcome = "error" -> MsgCloudinaryError
                     [] outcome = "errorObject" -> MsgUploadFailed
                     [] OTHER -> MsgUnknownCloudinary))
            /\ UNCHANGED <<uploadUrl, convertResult, scheduleCalls,
                           scheduleArgs>>
    /\ UNCHANGED <<fvars, pvars>>
    /\ UNCHANGED <<origin, req, configLoadable, tz, uploadCalls,
                   scheduleResult>>

Creations == {"creation-1"}

\* mutant of POST_scheduleDone: the catch block answers 200 as well
POST_scheduleDone_swallow(outcome, creation) ==
    /\ pc = "scheduling"
    /\ scheduleResult' = outcome
    /\ Respond(JsonSuccess(creation))
    /\ UNCHANGED <<fvars, pvars>>
    /\ UNCHANGED <<origin, req, configLoadable, tz, uploadCalls, uploadResult,
                   uploadUrl, scheduleCalls, scheduleArgs, convertResult>>

\* route.ts:110-136  scheduleInstagramPost returns or throws
POST_scheduleDone(outcome, creation) ==
    /\ pc = "scheduling"
    /\ scheduleResult' = outcome
    /\ IF outcome = "ok"
       THEN Respond(JsonSuccess(creation))
       ELSE Respond(JsonError(500, MsgScheduleError))
    /\ UNCHANGED <<fvars, pvars>>
    /\ UNCHANGED <<origin, req, configLoadable, tz, uploadCalls, uploadResult,
                   uploadUrl, scheduleCalls, scheduleArgs, convertResult>>

POST ==
    \/ POST_config
    \/ POST_validate
    \/ \E o \in UploadOutcomes, u \in Urls : POST_uploadDone(o, u)
    \/ \E o \in {"ok", "throws"}, c \in Creations : POST_scheduleDone(o, c)

\* a new request reaches the handler: fresh per-request state
Arrive(from, r, loadable, zone) ==
    /\ origin' = from
    /\ req' = r
    /\ configLoadable' = loadable
    /\ tz' = zone
    /\ pc' = "recv"
    /\ uploadCalls' = 0
    /\ uploadResult' = "none"
    /\ uploadUrl' = NoUrl
    /\ scheduleCalls' = 0
    /\ scheduleArgs' = NoArgs
    /\ scheduleResult' = "none"
    /\ convertResult' = "none"
    /\ response' = NoResponse

\* route.ts:16  any client posts any multipart body
DirectRequest ==
    /\ pc = "idle"
    /\ \E r \in Requests, l \in BOOLEAN, z \in TzOffsets :
           Arrive("direct", r, l, z)
    /\ UNCHANGED <<fvars, pvars>>

\* the handler has returned: nothing of the request is kept (route.ts holds
\* no state outside POST)
Forget ==
    /\ origin' = "none"
    /\ req' = NoRequest
    /\ pc' = "idle"
    /\ uploadCalls' = 0
    /\ uploadResult' = "none"
    /\ uploadUrl' = NoUrl
    /\ scheduleCalls' = 0
    /\ scheduleArgs' = NoArgs
    /\ scheduleResult' = "none"
    /\ convertResult' = "none"
    /\ response' = NoResponse
    /\ configLoadable' = TRUE
    /\ tz' = 0

\* the direct client has its response
DirectReply ==
    /\ pc = "responded"
    /\ origin = "direct"
    /\ Forget
    /\ UNCHANGED <<fvars, pvars>>

\* ======================================= InstagramUploader.tsx: upload form

MsgSelectImage == "Please select an image to upload."
MsgImageTooBig == "Image must be smaller than 8MB."
MsgCaptionRequired == "Caption is required"
MsgCaptionLimit == "Instagram captions are limited to 2,200 characters."
MsgScheduled == "Post scheduled successfully!"
MsgPublished == "Post published to Instagram!"
MsgFetchFailed == "TypeError: fetch failed"

NullFile == [present |-> FALSE, size |-> 0]
FileOfSize(n) == [present |-> TRUE, size |-> n]

\* files a user can select: small, exactly 8 MB, one byte more than 8 MB
Files ==
    {FileOfSize(1024), FileOfSize(MAX_FILE_SIZE_MB * BytesPerMB),
     FileOfSize(MAX_FILE_SIZE_MB * BytesPerMB + 1)}

\* what a datetime-local input can hold: "" or a local datetime
InputTimeTexts == {EmptyTime} \cup {[fmt |-> "local", t |-> n] : n \in 0..MaxTime}

NoError == [set |-> FALSE, src |-> "", text |-> ""]
\* an error set by a local check
ErrLocal(m) == [set |-> TRUE, src |-> "local", text |-> m]
\* InstagramUploader.tsx:98-103  the text of a response that is not ok
ErrHttp(m) == [set |-> TRUE, src |-> "response", text |-> m]
\* InstagramUploader.tsx:112-117  fetch itself threw
ErrThrown(m) == [set |-> TRUE, src |-> "thrown", text |-> m]

\* InstagramUploader.tsx:34-39  the initial formState
InitialForm ==
    [caption |-> 0, publishAt |-> None(EmptyTime), mode |-> "immediate",
     locationId |-> None("")]

NoParse == InitialForm

\* mutant of disabled: a submission in flight does not disable the button
disabled_envOnly == ~envReady

\* InstagramUploader.tsx:45
disabled == ~envReady \/ isSubmitting

\* InstagramUploader.tsx:135-149  the form is rendered only when envReady
FormRendered == envReady

\* mutant of formSchemaIssues: the .max(2200) is missing
formSchemaIssues_noMax(f) ==
    IF f.caption < MinCaptionLen THEN <<MsgCaptionRequired>> ELSE <<>>

\* InstagramUploader.tsx:9-23  formSchema.safeParse: the issues, in order
formSchemaIssues(f) ==
    IF f.caption < MinCaptionLen THEN <<MsgCaptionRequired>>
    ELSE IF f.caption > MaxCaptionLen THEN <<MsgCaptionLimit>>
    ELSE <<>>

\* InstagramUploader.tsx:9-23  formSchema.safeParse: the parsed data, with
\* empty publishAt / locationId turned into undefined
formSchemaData(f) ==
    [caption |-> f.caption,
     publishAt |-> IF f.publishAt.some /\ f.publishAt.v.fmt # "empty"
                   THEN f.publishAt ELSE None(EmptyTime),
     mode |-> f.mode,
     locationId |-> IF f.locationId.some /\ f.locationId.v # ""
                    THEN f.locationId ELSE None("")]

\* mutant of buildFormData: in scheduled mode publishAt is appended whatever
\* its value (`publishAt ?? ""`)
buildFormData_scheduledAlwaysAppends(d) ==
    [image |-> "file",
     caption |-> FieldString(d.caption),
     locationId |-> IF d.locationId.some /\ d.locationId.v # ""
                    THEN FieldString(d.locationId.v) ELSE FieldNull(""),
     publishAt |-> IF d.mode = "scheduled"
                   THEN FieldString(d.publishAt.v) ELSE FieldNull(EmptyTime)]

\* InstagramUploader.tsx:81-90  the FormData of the request
buildFormData(d) ==
    [image |-> "file",
     caption |-> FieldString(d.caption),
     locationId |-> IF d.locationId.some /\ d.locationId.v # ""
                    THEN FieldString(d.locationId.v) ELSE FieldNull(""),
     publishAt |-> IF d.mode = "scheduled" /\ TruthyTime(d.publishAt)
                   THEN FieldString(d.publishAt.v) ELSE FieldNull(EmptyTime)]

\* mutant of resetForm: the selected file is kept
resetForm_keepsFile ==
    /\ formState' = InitialForm
    /\ file' = file

\* InstagramUploader.tsx:47-55
resetForm ==
    /\ formState' = InitialForm
    /\ file' = NullFile

\* InstagramUploader.tsx:162-165  file input onChange
SelectFile(f) ==
    /\ FormRendered
    /\ file' = f
    /\ UNCHANGED <<svars, pvars>>
    /\ UNCHANGED <<envReady, formState, isSubmitting, message, error,
                   parseResult, outstanding, refreshPending>>

SetFormState(f) ==
    /\ FormRendered
    /\ formState' = f
    /\ UNCHANGED <<svars, pvars>>
    /\ UNCHANGED <<envReady, file, isSubmitting, message, error, parseResult,
                   outstanding, refreshPending>>

\* InstagramUploader.tsx:184-189  caption onChange
TypeCaption(n) == SetFormState([formState EXCEPT !.caption = n])

\* mutant of ClickImmediate: publishAt is not cleared
ClickImmediate_keepsPublishAt ==
    SetFormState([formState EXCEPT !.mode = "immediate"])

\* InstagramUploader.tsx:208-214  "Publish Now" onClick
ClickImmediate ==
    SetFormState([formState EXCEPT !.mode = "immediate",
                                   !.publishAt = None(EmptyTime)])

\* InstagramUploader.tsx:225-230  "Schedule" onClick
ClickScheduled == SetFormState([formState EXCEPT !.mode = "scheduled"])

\* InstagramUploader.tsx:236-257  publishAt onChange; the input is rendered
\* only in scheduled mode
TypePublishAt(text) ==
    /\ formState.mode = "scheduled"
    /\ SetFormState([formState EXCEPT !.publishAt = Some(text)])

\* InstagramUploader.tsx:272-277  locationId onChange
TypeLocation(text) == SetFormState([formState EXCEPT !.locationId = Some(text)])

\* InstagramUploader.tsx:57-96  handleSubmit up to the fetch call; the submit
\* button fires it only when it is not disabled
handleSubmit ==
    /\ FormRendered
    /\ ~disabled
    /\ IF ~file.present
       THEN /\ error' = ErrLocal(MsgSelectImage)
            /\ UNCHANGED svars
            /\ UNCHANGED <<isSubmitting, message, parseResult, outstanding>>
       ELSE IF file.size > MAX_FILE_SIZE_MB * BytesPerMB
       THEN /\ error' = ErrLocal(MsgImageTooBig)
            /\ UNCHANGED svars
            /\ UNCHANGED <<isSubmitting, message, parseResult, outstanding>>
       ELSE IF formSchemaIssues(formState) # <<>>
       THEN /\ error' = ErrLocal(formSchemaIssues(formState)[1])
            /\ UNCHANGED svars
            /\ UNCHANGED <<isSubmitting, message, parseResult, outstanding>>
       ELSE /\ isSubmitting' = TRUE
            /\ message' = None("")
            /\ error' = NoError
            /\ parseResult' = formSchemaData(formState)
            /\ outstanding' = outstanding + 1
            /\ \E l \in BOOLEAN, z \in TzOffsets :
                   Arrive("form", buildFormData(formSchemaData(formState)), l, z)
    /\ UNCHANGED <<envReady, formState, file, refreshPending, pvars>>

\* InstagramUploader.tsx:118-120  finally
Finally ==
    /\ isSubmitting' = FALSE
    /\ outstanding' = outstanding - 1
    /\ parseResult' = NoParse
    /\ Forget

\* InstagramUploader.tsx:98-120  the fetch resolved with the response
FetchResolve ==
    /\ pc = "responded"
    /\ origin = "form"
    /\ outstanding > 0
    /\ IF response.status >= 200 /\ response.status <= 299
       THEN /\ message' = Some(IF parseResult.mode = "scheduled"
                               THEN MsgScheduled ELSE MsgPublished)
            /\ resetForm
            /\ refreshPending' = TRUE
            /\ UNCHANGED error
       ELSE /\ error' = ErrHttp(response.error)
            /\ UNCHANGED <<formState, file, message, refreshPending>>
    /\ Finally
    /\ UNCHANGED <<envReady, pvars>>

\* InstagramUploader.tsx:112-120  the fetch threw: the request or its response
\* was lost
FetchReject ==
    /\ pc \in {"recv", "responded"}
    /\ origin = "form"
    /\ outstanding > 0
    /\ error' = ErrThrown(MsgFetchFailed)
    /\ Finally
    /\ UNCHANGED <<envReady, formState, file, message, refreshPending, pvars>>

\* InstagramUploader.tsx:111  router.refresh(): the page is fetched again
PageRefetch ==
    /\ refreshPending
    /\ refreshPending' = FALSE
    /\ UNCHANGED <<svars, pvars>>
    /\ UNCHANGED <<envReady, formState, file, isSubmitting, message, error,
                   parseResult, outstanding>>

FormEvent ==
    \/ \E f \in Files \cup {NullFile} : SelectFile(f)
    \/ \E n \in CaptionLens : TypeCaption(n)
    \/ ClickImmediate
    \/ ClickScheduled
    \/ \E t \in InputTimeTexts : TypePublishAt(t)
    \/ \E l \in LocationTexts : TypeLocation(l)

\* ============================================ Home: the dashboard page

MsgPostsError == "fetchScheduledPosts: error.message"
MsgQuotaError == "fetchPublishingLimit: error.message"
MsgLoadFailed == "Failed to load data from Instagram."

\* a ScheduledPost, as far as its status label goes: status_code and status
\* are optional strings, is_published an optional boolean
StatusCodes == {None("")} \cup {Some(x) : x \in {"", "FINISHED"}}
Statuses == {None("")} \cup {Some(x) : x \in {"", "IN_PROGRESS"}}

Posts ==
    [status_code : StatusCodes, status : Statuses,
     is_published : {"undefined", "true", "false"}]

PostLists == UNION {[1..n -> Posts] : n \in 0..MaxPosts}

\* what fetchPublishingLimit() resolves to: a quota, or null
NoQuota == [quota_usage |-> 0, quota_total |-> 0]
Quotas == {None(NoQuota), Some([quota_usage |-> 1, quota_total |-> 25])}

\* what a fetch rejects with: an Error with a message, or something else
NoReason == [isError |-> FALSE, message |-> ""]
PostsReasons == {[isError |-> TRUE, message |-> MsgPostsError], NoReason}
QuotaReasons == {[isError |-> TRUE, message |-> MsgQuotaError]}

Idle == [state |-> "idle", reason |-> NoReason]
Pending == [state |-> "pending", reason |-> NoReason]
Fulfilled == [state |-> "fulfilled", reason |-> NoReason]
Rejected(r) == [state |-> "rejected", reason |-> r]

IdleFetch(z) == [state |-> "idle", value |-> z, reason |-> NoReason]
PendingFetch(z) == [state |-> "pending", value |-> z, reason |-> NoReason]
FulfilledFetch(x) == [state |-> "fulfilled", value |-> x, reason |-> NoReason]
RejectedFetch(z, r) == [state |-> "rejected", value |-> z, reason |-> r]

\* part_001:40-43  statusLabel: ?? passes over null and undefined only
statusLabel(post) ==
    IF post.status_code.some THEN post.status_code.v
    ELSE IF post.status.some THEN post.status.v
    ELSE IF post.is_published = "true" THEN "PUBLISHED"
    ELSE "SCHEDULED"

NotRendered ==
    [done |-> FALSE, placeholder |-> FALSE, labels |-> <<>>,
     quota |-> None(NoQuota), error |-> None("")]

\* part_000:35-89 and part_001:25-107  what the page shows: the placeholder
\* or one status label per post, the quota banner, the error banner
Render(posts, limit, err) ==
    [done |-> TRUE,
     placeholder |-> Len(posts) = 0,
     labels |-> [i \in 1..Len(posts) |-> statusLabel(posts[i])],
     quota |-> limit,
     error |-> IF err.some /\ err.v # "" THEN err ELSE None("")]

\* part_000:27-32  the message of what was caught
caughtMessage(r) == IF r.isError THEN r.message ELSE MsgLoadFailed

\* part_000:12-26  Home up to the await: validateInstagramConfig(), and when
\* ready both fetches are started and handed to Promise.all
Home_begin ==
    /\ homePc \in {"none", "rendered"}
    /\ scheduledPosts' = <<>>
    /\ publishingLimit' = None(NoQuota)
    /\ fetchError' = None("")
    /\ IF envReady
       THEN /\ postsFetch' = PendingFetch(<<>>)
            /\ quotaFetch' = PendingFetch(None(NoQuota))
            /\ all' = Pending
            /\ homePc' = "awaiting"
            /\ rendered' = NotRendered
       ELSE /\ postsFetch' = IdleFetch(<<>>)
            /\ quotaFetch' = IdleFetch(None(NoQuota))
            /\ all' = Idle
            /\ homePc' = "rendered"
            /\ rendered' = Render(<<>>, None(NoQuota), None(""))
    /\ UNCHANGED <<svars, fvars>>

\* Promise.all: rejected by the first rejection, fulfilled when every promise is
AllAfter(mine, other) ==
    IF all.state # "pending" THEN all
    ELSE IF mine.state = "rejected" THEN Rejected(mine.reason)
    ELSE IF other.state = "fulfilled" THEN Fulfilled
    ELSE all

\* part_000:24  fetchScheduledPosts() settles
PostsSettle(p) ==
    /\ postsFetch.state = "pending"
    /\ postsFetch' = p
    /\ all' = AllAfter(p, quotaFetch)
    /\ UNCHANGED <<homePc, quotaFetch, scheduledPosts, publishingLimit,
                   fetchError, rendered>>
    /\ UNCHANGED <<svars, fvars>>

\* part_000:25  fetchPublishingLimit() settles
QuotaSettle(q) ==
    /\ quotaFetch.state = "pending"
    /\ quotaFetch' = q
    /\ all' = AllAfter(q, postsFetch)
    /\ UNCHANGED <<homePc, postsFetch, scheduledPosts, publishingLimit,
                   fetchError, rendered>>
    /\ UNCHANGED <<svars, fvars>>

\* mutant of Home_resume: what was fetched is kept when the other fetch failed
\* (Promise.allSettled)
Home_resume_keepsPartial ==
    /\ homePc = "awaiting"
    /\ all.state \in {"fulfilled", "rejected"}
    /\ LET posts == IF postsFetch.state = "fulfilled"
                    THEN postsFetch.value ELSE scheduledPosts
           limit == IF quotaFetch.state = "fulfilled"
                    THEN quotaFetch.value ELSE publishingLimit
           err == IF all.state = "fulfilled" THEN fetchError
                  ELSE Some(caughtMessage(all.reason))
       IN /\ scheduledPosts' = posts
          /\ publishingLimit' = limit
          /\ fetchError' = err
          /\ rendered' = Render(posts, limit, err)
    /\ homePc' = "rendered"
    /\ UNCHANGED <<postsFetch, quotaFetch, all>>
    /\ UNCHANGED <<svars, fvars>>

\* part_000:22-89  Home after the await: the destructuring assignment or the
\* catch block, then the render
Home_resume ==
    /\ homePc = "awaiting"
    /\ all.state \in {"fulfilled", "rejected"}
    /\ LET ok == all.state = "fulfilled"
           posts == IF ok THEN postsFetch.value ELSE scheduledPosts
           limit == IF ok THEN quotaFetch.value ELSE publishingLimit
           err == IF ok THEN fetchError ELSE Some(caughtMessage(all.reason))
       IN /\ scheduledPosts' = posts
          /\ publishingLimit' = limit
          /\ fetchError' = err
          /\ rendered' = Render(posts, limit, err)
    /\ homePc' = "rendered"
    /\ UNCHANGED <<postsFetch, quotaFetch, all>>
    /\ UNCHANGED <<svars, fvars>>

PageNext ==
    \/ Home_begin
    \/ \E l \in PostLists : PostsSettle(FulfilledFetch(l))
    \/ \E r \in PostsReasons : PostsSettle(RejectedFetch(<<>>, r))
    \/ \E q \in Quotas : QuotaSettle(FulfilledFetch(q))
    \/ \E r \in QuotaReasons : QuotaSettle(RejectedFetch(None(NoQuota), r))
    \/ Home_resume

Init ==
    /\ pc = "idle"
    /\ origin = "none"
    /\ req = NoRequest
    /\ configLoadable = TRUE
    /\ tz = 0
    /\ uploadCalls = 0
    /\ uploadResult = "none"
    /\ uploadUrl = NoUrl
    /\ scheduleCalls = 0
    /\ scheduleArgs = NoArgs
    /\ scheduleResult = "none"
    /\ convertResult = "none"
    /\ response = NoResponse
    /\ envReady \in BOOLEAN
    /\ formState = InitialForm
    /\ file = NullFile
    /\ isSubmitting = FALSE
    /\ message = None("")
    /\ error = NoError
    /\ parseResult = NoParse
    /\ outstanding = 0
    /\ refreshPending = FALSE
    /\ homePc = "none"
    /\ postsFetch = IdleFetch(<<>>)
    /\ quotaFetch = IdleFetch(None(NoQuota))
    /\ all = Idle
    /\ scheduledPosts = <<>>
    /\ publishingLimit = None(NoQuota)
    /\ fetchError = None("")
    /\ rendered = NotRendered

Next ==
    \/ DirectRequest
    \/ POST
    \/ DirectReply

\* the endpoint under arbitrary requests
Spec == Init /\ [][Next]_vars

FormNext ==
    \/ FormEvent
    \/ handleSubmit
    \/ POST
    \/ FetchResolve
    \/ FetchReject
    \/ PageRefetch

\* the upload form, with the endpoint behind it
FormSpec == Init /\ [][FormNext]_vars

\* the dashboard page under any outcome of its two fetches
PageSpec == Init /\ [][PageNext]_vars

\* what is returned is returned: the providers answer and the fetch settles
FormLiveSpec ==
    FormSpec /\ WF_vars(POST) /\ WF_vars(FetchResolve \/ FetchReject)

\* ===================================================== publish endpoint claims

\* the request in hand, as the claims speak of it
ImageIsFile == req.image = "file"
CaptionText == IF req.caption.kind = "string" THEN req.caption.v ELSE 0
CaptionEmptyOrMissing == CaptionText = 0
PassesValidation == configLoadable /\ ImageIsFile /\ ~CaptionEmptyOrMissing
Handling == pc \in {"formData", "uploading", "scheduling", "responded"}

\* C1: the checks run in the order config, image, schema, and the first failing
\* one alone decides the response: 500 with the config reason when the config
\* cannot be loaded, whatever the body; else 400 "Image file is required." when
\* image is not a file, whatever the caption; else 400 with the first schema
\* issue's message when the caption is empty or missing.
C1_FirstFailureWins ==
    pc = "responded" =>
        /\ ~configLoadable => response = JsonError(500, MsgMissingConfig)
        /\ configLoadable /\ ~ImageIsFile
               => response = JsonError(400, MsgImageRequired)
        /\ configLoadable /\ ImageIsFile /\ CaptionEmptyOrMissing
               => response = JsonError(400, MsgTooSmall)

C1_Witness ==
    /\ pc = "responded"
    /\ configLoadable
    /\ req.image = "string"
    /\ req.caption = FieldString(0)
    /\ response = JsonError(400, MsgImageRequired)

\* C2: while a request that validation rejects is handled, neither the upload
\* nor scheduleInstagramPost is called.
C2_RejectedMakesNoCalls ==
    (origin # "none" /\ ~PassesValidation)
        => (uploadCalls = 0 /\ scheduleCalls = 0)

C2_Witness ==
    /\ pc = "responded"
    /\ configLoadable
    /\ ImageIsFile
    /\ req.caption = FieldString(0)
    /\ response.status = 400
    /\ uploadCalls = 0
    /\ scheduleCalls = 0

\* C3: within one request the upload is called at most once,
\* scheduleInstagramPost at most once and only after the upload succeeded, with
\* exactly the URL the upload returned; when the upload fails
\* scheduleInstagramPost is not called.
C3_UploadThenSchedule ==
    /\ uploadCalls <= 1
    /\ scheduleCalls <= 1
    /\ scheduleCalls = 1 =>
           /\ uploadCalls = 1
           /\ uploadResult = "ok"
           /\ uploadUrl \in Urls
           /\ scheduleArgs.imageUrl = uploadUrl
    /\ uploadResult \in {"error", "errorObject", "noResult"}
           => scheduleCalls = 0

C3_Witness ==
    /\ pc = "responded"
    /\ uploadCalls = 1
    /\ scheduleCalls = 1
    /\ scheduleArgs.imageUrl = [n |-> NumUrls]
    /\ uploadUrl = [n |-> NumUrls]

\* C4: a request that passes validation is answered 200 with success and the
\* schedule result exactly when the upload and scheduleInstagramPost both
\* succeeded; an error of the upload, of the publishAt conversion or of
\* scheduleInstagramPost is answered 500 with an error message, never 200.
C4_SuccessIffBothSucceed ==
    (pc = "responded" /\ PassesValidation) =>
        /\ response.status \in {200, 500}
        /\ response.status = 200
               <=> (uploadResult = "ok" /\ scheduleResult = "ok")
        /\ response.status = 200
               => (response.success /\ response.creation \in Creations
                   /\ response.error = "")
        /\ (uploadResult \in {"error", "errorObject", "noResult"}
            \/ convertResult = "throws" \/ scheduleResult = "throws")
               => (response.status = 500 /\ ~response.success
                   /\ response.error # "")

C4_Witness ==
    /\ pc = "responded"
    /\ PassesValidation
    /\ uploadResult = "ok"
    /\ scheduleResult = "throws"
    /\ response = JsonError(500, MsgScheduleError)

\* C5 (as claimed): a request with a valid image and a caption longer than 2200
\* characters is answered 400 and makes no upload or schedule call.
C5_LongCaptionRejected ==
    (Handling /\ configLoadable /\ ImageIsFile /\ CaptionText > MaxCaptionLen)
        => /\ uploadCalls = 0
           /\ scheduleCalls = 0
           /\ pc = "responded" => response.status = 400

\* C6 (as claimed): when validation passes and the upload succeeds,
\* scheduleInstagramPost is called, with a publishAt exactly when the request
\* carried a publishAt field.
C6_PublishAtIffFieldPresent ==
    (pc \in {"scheduling", "responded"} /\ PassesValidation
     /\ uploadResult = "ok")
        => /\ scheduleCalls = 1
           /\ scheduleArgs.publishAt.some <=> req.publishAt.kind # "null"

\* the instant a publishAt text denotes, written as an ISO timestamp
IsoOf(text) ==
    [fmt |-> "utc", t |-> IF text.fmt = "local" THEN text.t - tz ELSE text.t]

\* C6 (amended): when validation passes and the upload succeeds: a publishAt
\* field that is a non-empty string denoting a date makes one
\* scheduleInstagramPost call with that instant as an ISO timestamp; a non-empty
\* string that denotes no date makes no call and a 500; a field that is absent,
\* empty or not a string makes one call with no publishAt. locationId is passed
\* as given, or null when it is absent or not a string.
C6_PublishAtPassedWhenNonEmpty ==
    (pc \in {"scheduling", "responded"} /\ PassesValidation
     /\ uploadResult = "ok")
        => LET f == req.publishAt
               text == f.kind = "string" /\ f.v.fmt # "empty"
           IN /\ (text /\ f.v.fmt \in {"local", "utc"})
                     => /\ scheduleCalls = 1
                        /\ scheduleArgs.publishAt = Some(IsoOf(f.v))
              /\ (text /\ f.v.fmt = "garbage")
                     => /\ scheduleCalls = 0
                        /\ response = JsonError(500, MsgInvalidTime)
              /\ ~text
                     => /\ scheduleCalls = 1
                        /\ ~scheduleArgs.publishAt.some
              /\ scheduleCalls = 1
                     => /\ scheduleArgs.locationId =
                            (IF req.locationId.kind = "string"
                             THEN Some(req.locationId.v) ELSE None(""))
                        /\ scheduleArgs.caption = CaptionText

C6_Witness ==
    /\ pc = "responded"
    /\ tz = 1
    /\ req.publishAt = FieldString([fmt |-> "local", t |-> MaxTime])
    /\ req.locationId = FieldNull("")
    /\ scheduleCalls = 1
    /\ scheduleArgs.publishAt = Some([fmt |-> "utc", t |-> MaxTime - 1])
    /\ scheduleArgs.locationId = None("")
    /\ response.status = 200

\* ========================================================= upload form claims

\* the message of the first local check that fails for the form as it stands,
\* "" when all pass: file missing, file larger than 8 MB, caption empty,
\* caption longer than 2200
FirstLocalFailure ==
    IF ~file.present THEN MsgSelectImage
    ELSE IF file.size > MAX_FILE_SIZE_MB * BytesPerMB THEN MsgImageTooBig
    ELSE IF formState.caption = 0 THEN MsgCaptionRequired
    ELSE IF formState.caption > MaxCaptionLen THEN MsgCaptionLimit
    ELSE ""

\* C7: a submit attempt that fails local validation sends no request and does
\* not enter the submitting state (a step that sends a request or starts
\* submitting is one whose form passes every check), and the error it shows is
\* that of the first failing check in the order file missing, file size, schema.
C7_LocalRejectSendsNothing ==
    [][/\ (outstanding' > outstanding \/ (isSubmitting' /\ ~isSubmitting)
           \/ (pc = "idle" /\ pc' # "idle"))
              => FirstLocalFailure = ""
       /\ (~isSubmitting /\ FirstLocalFailure # "" /\ error' # error)
              => /\ error' = ErrLocal(FirstLocalFailure)
                 /\ ~isSubmitting'
                 /\ outstanding' = outstanding
                 /\ pc' = "idle"
                 /\ message' = message]_vars

C7_Witness ==
    /\ pc = "idle"
    /\ ~isSubmitting
    /\ outstanding = 0
    /\ file = FileOfSize(MAX_FILE_SIZE_MB * BytesPerMB + 1)
    /\ formState.caption = MaxCaptionLen + 1
    /\ error = ErrLocal(MsgImageTooBig)

\* C8: whatever the form events before, a request submitted in immediate mode
\* carries no publishAt field, and in immediate mode the stored publishAt is
\* undefined.
C8_ImmediateHasNoPublishAt ==
    /\ formState.mode = "immediate" => ~formState.publishAt.some
    /\ (origin = "form" /\ parseResult.mode = "immediate")
           => req.publishAt.kind = "null"
    /\ (origin = "form" /\ parseResult.mode = "immediate" /\ scheduleCalls = 1)
           => ~scheduleArgs.publishAt.some

C8_Witness ==
    /\ origin = "form"
    /\ pc = "scheduling"
    /\ parseResult.mode = "immediate"
    /\ req.publishAt.kind = "null"
    /\ ~scheduleArgs.publishAt.some
    /\ formState.mode = "scheduled"
    /\ formState.publishAt = Some([fmt |-> "local", t |-> MaxTime])

\* the two ways out of the submitting state
SuccessTransition ==
    /\ message' = Some(IF parseResult.mode = "scheduled"
                       THEN MsgScheduled ELSE MsgPublished)
    /\ ~error'.set
    /\ formState' = InitialForm
    /\ file' = NullFile
    /\ refreshPending'

FailureTransition ==
    /\ error'.set
    /\ ~message'.some
    /\ formState' = formState
    /\ file' = file
    /\ refreshPending' = refreshPending

\* C9: a submission that entered the submitting state returns to idle, by
\* exactly one of two transitions: on a successful response the success message
\* is set, caption, mode, publishAt, locationId and file are reset and a page
\* re-fetch is triggered; on a failed response or a thrown error the error is
\* set, the fields are left as they are and no re-fetch is triggered.
C9_SubmittingReturnsToIdle ==
    /\ [][(isSubmitting /\ ~isSubmitting') =>
            LET ok == pc = "responded" /\ response.status = 200 IN
            /\ SuccessTransition \/ FailureTransition
            /\ ~(SuccessTransition /\ FailureTransition)
            /\ SuccessTransition => ok
            /\ ~ok => FailureTransition]_vars
    /\ (isSubmitting ~> ~isSubmitting)

C9_Witness ==
    /\ ~isSubmitting
    /\ outstanding = 0
    /\ message = Some(MsgScheduled)
    /\ ~error.set
    /\ formState = InitialForm
    /\ file = NullFile
    /\ refreshPending

\* C10: the submit control is disabled exactly when a submission is in flight
\* or envReady is false; at most one request is outstanding at any time, and
\* none is sent while envReady is false.
C10_OneRequestAtATime ==
    /\ disabled <=> (isSubmitting \/ ~envReady)
    /\ outstanding <= 1
    /\ outstanding = 1 <=> isSubmitting
    /\ origin = "form" => outstanding = 1
    /\ ~envReady => (outstanding = 0 /\ origin # "form" /\ ~isSubmitting)

C10_Witness ==
    /\ envReady
    /\ isSubmitting
    /\ disabled
    /\ outstanding = 1
    /\ origin = "form"
    /\ pc = "uploading"

\* the form as it stands is in scheduled mode with no publish time: publishAt
\* unset or the empty string
ScheduledWithoutTime ==
    /\ formState.mode = "scheduled"
    /\ ~TruthyTime(formState.publishAt)

\* C12: local validation accepts a submission in scheduled mode with no
\* publishAt (unset or empty): no local check objects to the missing time, the
\* request goes out without a publishAt field, and the endpoint calls
\* scheduleInstagramPost with no publishAt.
C12_ScheduledWithoutTimeIsSent ==
    /\ [](/\ (origin = "form" /\ parseResult.mode = "scheduled"
              /\ ~TruthyTime(parseResult.publishAt))
                 => /\ req.publishAt.kind = "null"
                    /\ scheduleCalls = 1 => ~scheduleArgs.publishAt.some
          /\ (origin = "form" /\ req.publishAt.kind = "null"
              /\ scheduleCalls = 1)
                 => ~scheduleArgs.publishAt.some)
    /\ [][(~isSubmitting /\ ScheduledWithoutTime /\ FirstLocalFailure = "")
            => ~(error' # error /\ error'.src = "local")]_vars

C12_Witness ==
    /\ origin = "form"
    /\ pc = "scheduling"
    /\ parseResult.mode = "scheduled"
    /\ ~parseResult.publishAt.some
    /\ req.publishAt.kind = "null"
    /\ scheduleCalls = 1
    /\ ~scheduleArgs.publishAt.some
    /\ formState.mode = "scheduled"
    /\ formState.publishAt = Some(EmptyTime)

\* C14 (as claimed): the success message and the error message are never both
\* set.
C14_MessageAndErrorExclusive == ~(message.some /\ error.set)

\* ==================================================== dashboard page claims

EitherFetchRejected ==
    postsFetch.state = "rejected" \/ quotaFetch.state = "rejected"

\* C11: on a page load with envReady the two fetches run side by side, and if
\* either rejects, in any order of completion and whatever the other one did,
\* the page renders with one error string, an empty post list and a null quota:
\* partial results are never shown. When envReady is false neither fetch is
\* made and no fetch error is shown.
C11_FetchesFailTogether ==
    /\ (homePc = "awaiting" /\ all.state = "pending")
           => (postsFetch.state # "idle" /\ quotaFetch.state # "idle")
    /\ (homePc = "rendered" /\ envReady /\ EitherFetchRejected)
           => /\ rendered.done
              /\ rendered.error.some
              /\ rendered.error.v \in
                     {IF f.reason.isError THEN f.reason.message
                      ELSE MsgLoadFailed :
                          f \in {g \in {postsFetch, quotaFetch} :
                                     g.state = "rejected"}}
              /\ rendered.placeholder
              /\ rendered.labels = <<>>
              /\ ~rendered.quota.some
              /\ scheduledPosts = <<>>
              /\ ~publishingLimit.some
    /\ (homePc = "rendered" /\ (~rendered.placeholder \/ rendered.quota.some))
           => /\ postsFetch.state = "fulfilled"
              /\ quotaFetch.state = "fulfilled"
              /\ ~rendered.error.some
    /\ (homePc = "rendered" /\ ~envReady)
           => /\ postsFetch.state = "idle"
              /\ quotaFetch.state = "idle"
              /\ ~rendered.error.some
              /\ rendered.placeholder

C11_Witness ==
    /\ homePc = "rendered"
    /\ envReady
    /\ postsFetch.state = "fulfilled"
    /\ Len(postsFetch.value) = MaxPosts
    /\ quotaFetch.state = "rejected"
    /\ rendered.error = Some(MsgQuotaError)
    /\ rendered.placeholder
    /\ ~rendered.quota.some

\* the first non-empty value among statusCode, status and the label derived
\* from isPublished
FirstNonEmptyLabel(post) ==
    IF post.status_code.some /\ post.status_code.v # "" THEN post.status_code.v
    ELSE IF post.status.some /\ post.status.v # "" THEN post.status.v
    ELSE IF post.is_published = "true" THEN "PUBLISHED"
    ELSE "SCHEDULED"

\* C13 (as claimed): the status label of every rendered post is the first
\* non-empty value among statusCode, status and the label derived from
\* isPublished, so it is never empty.
C13_LabelIsFirstNonEmpty ==
    (homePc = "rendered" /\ ~rendered.placeholder) =>
        \A i \in 1..Len(scheduledPosts) :
            /\ rendered.labels[i] # ""
            /\ rendered.labels[i] = FirstNonEmptyLabel(scheduledPosts[i])

====
